---- MODULE Spec2Model ----
(***************************************************************************)
(* A model of lightify/__init__.py: the Lightify gateway session, its      *)
(* frame builders, the length-prefixed receive loop, the Light and Group   *)
(* registries and the Luminary mutators.                                   *)
(*                                                                         *)
(* The module is Python 2 code (dict.iteritems, dict.itervalues, str +     *)
(* str): every string is a byte string and the `except TypeError` branches *)
(* of the builders and of recv are never taken.  A byte string is a        *)
(* sequence of integers 0..255.  struct.error, socket.error and the other  *)
(* exceptions all propagate to the caller of the public operation: the     *)
(* call ends with outcome "error".                                         *)
(*                                                                         *)
(* TLC's integers are 32 bits wide, so a 32-bit or 64-bit unsigned value   *)
(* (firmware version, light address) is held as its base-256 digits, most  *)
(* significant digit first: 0x01020304 is <<1, 2, 3, 4>>.  16-bit and      *)
(* 8-bit values are integers.                                              *)
(***************************************************************************)
EXTENDS Integers, Sequences, FiniteSets, TLC

\* ------------------------------------------------------------------ bounds

\* Commands a session may issue: next_seq is called while seq < MaxSeq; in
\* the sessions that only refresh and command groups, while seq < GroupSeq;
\* in the long sessions that only poll, while seq < SeqLimit.
MaxSeq == 4
GroupSeq == 6
SeqLimit == 258
\* ... and in the sessions over a sound connection, while seq < HomeSeq.
HomeSeq == 5
\* ... and in the sessions with a gateway of many groups, while seq < WideSeq.
WideSeq == 5
\* Partial socket reads (fewer bytes than asked for) within one session.
MaxShort == 1
\* Size of a short first TCP segment: a partial read returns 1 or Segment bytes.
Segment == 8
\* Records in one all-light-status response, entries in one group-list
\* response, members in one group-info response.
MaxRecords == 2
MaxGroups == 2
MaxMembers == 1

\* ------------------------------------------------------- program constants

COMMAND_ALL_LIGHT_STATUS == 19
COMMAND_GROUP_LIST == 30
COMMAND_GROUP_INFO == 38
COMMAND_LUMINANCE == 49
COMMAND_ONOFF == 50
COMMAND_TEMP == 51
COMMAND_COLOUR == 54
COMMAND_LIGHT_STATUS == 104
status_len == 50
lengthsize == 2

\* --------------------------------------------------- byte strings, struct

Byte == 0..255

Min(a, b) == IF a < b THEN a ELSE b

\* Python's s[a:b] for 0 <= a <= b: clipped to the string, never an error.
Slice(s, a, b) == SubSeq(s, a + 1, Min(b, Len(s)))

\* Python's s[a:].
SliceFrom(s, a) == SubSeq(s, a + 1, Len(s))

Reverse(s) == [i \in 1..Len(s) |-> s[Len(s) + 1 - i]]

\* str.replace('\0', ""): every NUL byte is removed, not only the padding.
StripNul(s) == SelectSeq(s, LAMBDA c : c # 0)

\* An operation that raised struct.error has no byte string to give: this
\* marker stands for it (no byte string holds -1).  NoInt is the same for an
\* integer result.
StructError == <<-1>>
NoInt == -1

\* struct.pack("<B", n).
PackB(n) == IF n \in Byte THEN <<n>> ELSE StructError

\* struct.pack("<H", n).
PackH(n) == IF n \in 0..65535 THEN <<n % 256, n \div 256>> ELSE StructError

\* struct.pack("<Q", n), n held as 8 digits, most significant first.
PackQ(n) == Reverse(n)

\* struct.unpack("<B", s).
UnpackB(s) == IF Len(s) = 1 THEN s[1] ELSE NoInt

\* struct.unpack("<H", s).
UnpackH(s) == IF Len(s) = 2 THEN s[1] + 256 * s[2] ELSE NoInt

\* struct.unpack("<Q", s): the 8 bytes, least significant first, as digits.
\* ("<Q16" of line 479 is "<Q": Python 2 ignores a trailing repeat count.)
UnpackQ(s) == IF Len(s) = 8 THEN Reverse(s) ELSE StructError

\* struct.unpack(">I", s): the 4 bytes are the digits, most significant first.
UnpackBEI(s) == IF Len(s) = 4 THEN s ELSE StructError

\* The concatenation of packed parts; struct.error if any part failed.
RECURSIVE Concat(_)
Concat(parts) ==
    IF parts = <<>> THEN <<>>
    ELSE IF Head(parts) = StructError THEN StructError
    ELSE LET rest == Concat(Tail(parts))
         IN  IF rest = StructError THEN StructError ELSE Head(parts) \o rest

\* ----------------------------------------------------------- frame codec

\* struct.pack("<H6B", length, flag, command, 0, 0, 0x7, seq).
PackHeader(length, flag, command, s) ==
    Concat(<<PackH(length), PackB(flag), PackB(command), PackB(0), PackB(0),
             PackB(7), PackB(s)>>)

\* Lightify.build_global_command; s is the value next_seq() returned.
build_global_command(command, payload, s) ==
    Concat(<<PackHeader(6 + Len(payload), 2, command, s), payload>>)

\* build_basic_command with the length of a global command: the 8 bytes of
\* the selector are not counted.
build_basic_command_short_length(flag, command, group_or_light, payload, s) ==
    Concat(<<PackHeader(6 + Len(payload), flag, command, s),
             group_or_light, payload>>)

\* Lightify.build_basic_command; s is the value next_seq() returned.
build_basic_command(flag, command, group_or_light, payload, s) ==
    Concat(<<PackHeader(14 + Len(payload), flag, command, s),
             group_or_light, payload>>)

\* struct.pack("<8B", group.idx(), 0, 0, 0, 0, 0, 0, 0) of build_command.
GroupSelector(idx) == Concat(<<PackB(idx), <<0, 0, 0, 0, 0, 0, 0>> >>)

\* struct.pack("<Q", light.addr()) of build_light_command.
LightSelector(addr) == PackQ(addr)

\* The payloads of build_onoff, build_luminance, build_temp, build_colour.
OnoffPayload(on) == PackB(on)
LuminancePayload(lum, time) == Concat(<<PackB(lum), PackH(time)>>)
TempPayload(temp, time) == Concat(<<PackH(temp), PackH(time)>>)
ColourPayload(r, g, b, time) ==
    Concat(<<PackB(r), PackB(g), PackB(b), PackB(255), PackH(time)>>)

\* ---------------------------------------------------------- device model

\* Light.__init__ after Luminary.__init__: the name() accessor reads the
\* attribute Luminary.__init__ set (_Luminary__name); the status attributes
\* are unset until update_status runs, which it does right after.
NewLight(id, addr, type, name) ==
    [Luminary__name |-> name, id |-> id, addr |-> addr, type |-> type,
     fwVersion |-> <<>>, online |-> 0, groupId |-> 0, on |-> 0, lum |-> 0,
     temp |-> 0, r |-> 0, g |-> 0, b |-> 0, alpha |-> 0, Light__name |-> <<>>]

\* Light.update_status: inside class Light, self.__name is _Light__name,
\* another attribute than the _Luminary__name that name() returns.
update_status(light, rec) ==
    [light EXCEPT !.fwVersion = rec.fwVersion, !.online = rec.online,
                  !.groupId = rec.groupId, !.on = rec.status,
                  !.lum = rec.brightness, !.temp = rec.temp,
                  !.r = rec.red, !.g = rec.green, !.b = rec.blue,
                  !.alpha = rec.alpha, !.Light__name = rec.name]

\* Group.__init__ followed by set_lights.
NewGroup(idx, name, members) == [idx |-> idx, name |-> name, lights |-> members]

EmptyMap == [x \in {} |-> 0]

Restrict(f, S) == [x \in S |-> f[x]]

Range(f) == {f[x] : x \in DOMAIN f}

\* ------------------------------------------------------ response decoding

\* One 50-byte record of update_all_light_status, lines 476-513: every
\* struct.unpack must get a slice of exactly its size.
DecodeStatus(payload) ==
    LET id == UnpackH(Slice(payload, 0, 2))
        mac == UnpackQ(Slice(payload, 2, 10))
        type == UnpackB(Slice(payload, 10, 11))
        fwVersion == UnpackBEI(Slice(payload, 11, 15))
        online == UnpackB(Slice(payload, 15, 16))
        groupId == UnpackH(Slice(payload, 16, 18))
        status == UnpackB(Slice(payload, 18, 19))
        bt == Slice(payload, 19, 22)
        rgba == Slice(payload, 22, 26)
        name == StripNul(Slice(payload, 26, 42))
        unknown == UnpackQ(Slice(payload, 42, 50))
    IN  [ok |-> /\ id # NoInt /\ mac # StructError /\ type # NoInt
                /\ fwVersion # StructError /\ online # NoInt
                /\ groupId # NoInt /\ status # NoInt /\ Len(bt) = 3
                /\ Len(rgba) = 4 /\ unknown # StructError,
         id |-> id, mac |-> mac, type |-> type, fwVersion |-> fwVersion,
         online |-> online, groupId |-> groupId, status |-> status,
         brightness |-> IF Len(bt) = 3 THEN bt[1] ELSE NoInt,
         temp |-> IF Len(bt) = 3 THEN bt[2] + 256 * bt[3] ELSE NoInt,
         red |-> IF Len(rgba) = 4 THEN rgba[1] ELSE NoInt,
         green |-> IF Len(rgba) = 4 THEN rgba[2] ELSE NoInt,
         blue |-> IF Len(rgba) = 4 THEN rgba[3] ELSE NoInt,
         alpha |-> IF Len(rgba) = 4 THEN rgba[4] ELSE NoInt,
         name |-> name]

\* The smallest object identity no live Light has.
NewOid(hp) == CHOOSE o \in 1..(Cardinality(DOMAIN hp) + 1) : o \notin DOMAIN hp

\* Lines 531-537: the Light of a decoded record, merged in place when its
\* address is registered (old_lights), a new Light otherwise.
MergeRecord(old, hp, new, rec) ==
    LET known == rec.mac \in DOMAIN old
        oid == IF known THEN old[rec.mac] ELSE NewOid(hp)
        light == IF known THEN hp[oid]
                 ELSE NewLight(rec.id, rec.mac, rec.type, rec.name)
    IN  [heap |-> (oid :> update_status(light, rec)) @@ hp,
         lights |-> (rec.mac :> oid) @@ new]

\* The for loop of update_all_light_status from record i on: ok is FALSE
\* when a record raised struct.error, and heap is then what the records
\* before it left behind.
RECURSIVE StatusLoop(_, _, _, _, _, _)
StatusLoop(resp, i, num, old, hp, new) ==
    IF i >= num THEN [ok |-> TRUE, heap |-> hp, lights |-> new]
    ELSE LET pos == 9 + i * status_len
             rec == DecodeStatus(Slice(resp, pos, pos + status_len))
         IN  IF ~rec.ok THEN [ok |-> FALSE, heap |-> hp, lights |-> new]
             ELSE LET m == MergeRecord(old, hp, new, rec)
                  IN  StatusLoop(resp, i + 1, num, old, m.heap, m.lights)

\* The for loop of group_list from entry i on (lines 366-373).
RECURSIVE GroupListLoop(_, _, _, _)
GroupListLoop(resp, i, num, found) ==
    IF i >= num THEN [ok |-> TRUE, groups |-> found]
    ELSE LET pos == 9 + i * 18
             payload == Slice(resp, pos, pos + 18)
         IN  IF Len(payload) # 18 THEN [ok |-> FALSE, groups |-> found]
             ELSE LET idx == UnpackH(Slice(payload, 0, 2))
                      name == StripNul(Slice(payload, 2, 18))
                  IN  GroupListLoop(resp, i + 1, num, (idx :> name) @@ found)

\* Lightify.group_list from the received data on (lines 363-376).
DecodeGroupList(resp) ==
    LET num == UnpackH(Slice(resp, 7, 9))
    IN  IF num = NoInt THEN [ok |-> FALSE, groups |-> EmptyMap]
        ELSE GroupListLoop(resp, 0, num, EmptyMap)

\* The for loop of group_info from member i on (lines 399-405).
RECURSIVE GroupInfoLoop(_, _, _, _)
GroupInfoLoop(resp, i, num, found) ==
    IF i >= num THEN [ok |-> TRUE, lights |-> found]
    ELSE LET pos == 7 + 19 + i * 8
             addr == UnpackQ(Slice(Slice(resp, pos, pos + 8), 0, 8))
         IN  IF addr = StructError THEN [ok |-> FALSE, lights |-> found]
             ELSE GroupInfoLoop(resp, i + 1, num, Append(found, addr))

\* Lightify.group_info from the received data on (lines 395-408).
DecodeGroupInfo(resp) ==
    LET payload == Slice(SliceFrom(resp, 7), 0, 19)
    IN  IF Len(payload) # 19 THEN [ok |-> FALSE, lights |-> <<>>]
        ELSE GroupInfoLoop(resp, 0, payload[19], <<>>)

\* ---------------------------------------------------------------- gateway
\* The peer: what the gateway may answer to a request frame.

AddrA == <<0, 0, 0, 0, 0, 0, 0, 161>>
AddrB == <<0, 0, 0, 0, 0, 0, 1, 178>>

LampA ==
    [id |-> 1, mac |-> AddrA, type |-> 2, fwVersion |-> <<1, 2, 3, 4>>,
     online |-> 1, groupId |-> 3, status |-> 1, brightness |-> 128,
     temp |-> 2700, red |-> 255, green |-> 200, blue |-> 150, alpha |-> 255,
     name |-> <<75>>]

\* The same lamp after it was renamed and dimmed to 0 on the gateway.
LampARenamed ==
    [LampA EXCEPT !.name = <<76, 75>>, !.brightness = 0]

LampB ==
    [id |-> 2, mac |-> AddrB, type |-> 10, fwVersion |-> <<1, 0, 2, 5>>,
     online |-> 1, groupId |-> 0, status |-> 0, brightness |-> 50,
     temp |-> 4000, red |-> 1, green |-> 2, blue |-> 3, alpha |-> 255,
     name |-> <<66>>]

StatusRecords == {LampA, LampARenamed, LampB}

GroupEntries == {[idx |-> 1, name |-> <<71>>], [idx |-> 2, name |-> <<72>>]}

Zeros(n) == [i \in 1..n |-> 0]

\* A name in its 16-byte NUL-padded field.
Pad16(name) == name \o Zeros(16 - Len(name))

\* The 50-byte status record of a lamp.
EncodeStatus(l) ==
    PackH(l.id) \o PackQ(l.mac) \o <<l.type>> \o l.fwVersion \o <<l.online>>
    \o PackH(l.groupId) \o <<l.status, l.brightness>> \o PackH(l.temp)
    \o <<l.red, l.green, l.blue, l.alpha>> \o Pad16(l.name) \o Zeros(8)

EncodeGroupEntry(e) == PackH(e.idx) \o Pad16(e.name)

RECURSIVE Flatten(_)
Flatten(ss) == IF ss = <<>> THEN <<>> ELSE Head(ss) \o Flatten(Tail(ss))

\* The 7 bytes a response carries between its length prefix and its body:
\* they echo the request's flag, command and sequence byte.
ResponseHeader(req) == <<req[3], req[4], 0, 0, 7, req[8], 0>>

\* A response as sent: the 2-byte length of what follows, then that.
Framed(body) == PackH(Len(body)) \o body

\* Sequences of up to n elements of S.
SeqsUpTo(S, n) == UNION {[1..k -> S] : k \in 0..n}

\* A body, what it tells (the lamps of an all-light-status body, the entries
\* of a group-list body, the packed members of a group-info body), and
\* whether its count is that of its entries.
Answer(body, told, sound) == [body |-> body, told |-> told, sound |-> sound]

\* All-light-status bodies: a count and that many records, or (a malformed
\* response) a count one larger than the records that follow.
StatusBodies ==
    {Answer(PackH(count) \o Flatten([i \in 1..Len(ls) |-> EncodeStatus(ls[i])]), ls, count = Len(ls)) :
        <<ls, count>> \in {<<ls, c>> \in SeqsUpTo(StatusRecords, MaxRecords) \X (0..(MaxRecords + 1)) :
                               c \in {Len(ls), Len(ls) + 1}}}

\* Group-list bodies over the given entries.
GroupListBodiesOf(entries) ==
    {Answer(PackH(count) \o Flatten([i \in 1..Len(es) |-> EncodeGroupEntry(es[i])]), es, count = Len(es)) :
        <<es, count>> \in {<<es, c>> \in SeqsUpTo(entries, MaxGroups) \X (0..(MaxGroups + 1)) :
                               c \in {Len(es), Len(es) + 1}}}

GroupListBodies == GroupListBodiesOf(GroupEntries)

GroupInfoBodies(idx) ==
    {Answer(PackH(idx) \o Pad16(<<>>) \o <<count>> \o Flatten(ms), ms, count = Len(ms)) :
        <<ms, count>> \in {<<ms, c>> \in SeqsUpTo({PackQ(AddrA), PackQ(AddrB)}, MaxMembers) \X (0..(MaxMembers + 1)) :
                               c \in {Len(ms), Len(ms) + 1}}}

\* The responses to a request frame that carry one of the bodies.
ResponsesOf(req, bodies) ==
    {[frame |-> Framed(ResponseHeader(req) \o a.body), told |-> a.told,
      sound |-> a.sound] : a \in bodies}

\* What the gateway may send back for a request frame.
Responses(req) ==
    ResponsesOf(req,
                IF req[4] = COMMAND_ALL_LIGHT_STATUS THEN StatusBodies
                ELSE IF req[4] = COMMAND_GROUP_LIST THEN GroupListBodies
                ELSE IF req[4] = COMMAND_GROUP_INFO THEN GroupInfoBodies(req[9])
                ELSE {Answer(<<>>, <<>>, TRUE)})

\* The group entries of a gateway that has come to use an index above 255.
WideEntries == {[idx |-> 1, name |-> <<71>>], [idx |-> 300, name |-> <<87>>]}

\* The well-formed answers of that gateway.
WideResponses(req) ==
    {a \in ResponsesOf(req,
                       IF req[4] = COMMAND_GROUP_LIST
                       THEN GroupListBodiesOf(WideEntries)
                       ELSE IF req[4] = COMMAND_GROUP_INFO
                       THEN GroupInfoBodies(req[9])
                       ELSE {Answer(<<>>, <<>>, TRUE)}) : a.sound}

\* The answers of a gateway in a steady state: well-formed, one lamp known.
SteadyResponses(req) ==
    {a \in Responses(req) :
        /\ a.sound
        /\ req[4] = COMMAND_ALL_LIGHT_STATUS => a.told = <<LampA>>}

\* ------------------------------------------------------------------ state

VARIABLES
    seq,      \* Lightify.__seq
    lights,   \* Lightify.__lights: address -> identity of its Light object
    heap,     \* the live Light objects: identity -> attributes
    groups,   \* Lightify.__groups: name -> Group
    pc,       \* where the caller is: "idle", or a step of the running call
    call,     \* the public operation running (or the last one that ran)
    data,     \* the operation's local `data`: the frame built, the response
    rx,       \* recv's locals: data, expected, string; and its short reads
    loc,      \* update_group_list's locals: lst (as todo), groups, group
    inbuf,    \* socket: bytes the gateway sent that no read has returned yet
    closed,   \* socket: the gateway closed the connection
    result,   \* how the last call ended: "ok", "error" (and where), "none"
    issued,   \* history: number of next_seq() calls, i.e. frames issued
    shorts,   \* history: number of socket reads that returned a part only
    stale,    \* history: bytes of earlier responses unread at the last send
    answer    \* history: the last response as sent, and what the gateway told

vars == <<seq, lights, heap, groups, pc, call, data, rx, loc, inbuf, closed,
          result, issued, shorts, stale, answer>>

NoGroup == [idx |-> 0, name |-> <<>>, lights |-> <<>>]
NoLight == NewLight(0, <<>>, 0, <<>>)
NoPrev == [op |-> "none", light |-> 0, args |-> <<>>, status |-> "none"]
NoCall == [op |-> "none", kind |-> "session", light |-> 0, group |-> NoGroup,
           args |-> <<>>, before |-> NoLight, known |-> {}, since |-> 0,
           prev |-> NoPrev]
\* No response yet: frame is the last response as sent, lamps what the last
\* all-light-status response reported, list the entries of the last
\* group-list response, info the packed members told per group index since.
NoAnswer == [frame |-> <<>>, lamps |-> <<>>, list |-> <<>>, info |-> EmptyMap]
NoResult == [status |-> "none", at |-> "none", phase |-> "none", built |-> 0]
NoRx == [data |-> <<>>, expected |-> 0, string |-> <<>>]
NoLoc == [phase |-> "none", lst |-> EmptyMap, groups |-> EmptyMap,
          group |-> NoGroup]

\* Lightify.__init__: sequence 1, both registries empty, socket connected.
Init ==
    /\ seq = 1
    /\ lights = EmptyMap
    /\ heap = EmptyMap
    /\ groups = EmptyMap
    /\ pc = "idle"
    /\ call = NoCall
    /\ data = <<>>
    /\ rx = NoRx
    /\ loc = NoLoc
    /\ inbuf = <<>>
    /\ closed = FALSE
    /\ result = NoResult
    /\ issued = 0
    /\ shorts = 0
    /\ stale = 0
    /\ answer = NoAnswer

\* Arguments the caller passes to the mutators.
OnArgs == {0, 1}
LumArgs == {0, 50}
TempArgs == {3000}
RgbArgs == {<<10, 20, 30>>}
TimeArgs == {0}

\* ---------------------------------------------------------- call and return

\* A call of operation op: on a Light, on a Group, or on the session.  It
\* remembers (history) the Light as it was when the call began, the
\* addresses registered and the frames issued until then, and the call
\* before it with how that one ended.
Call(op, kind, light, group, args) ==
    [op |-> op, kind |-> kind, light |-> light, group |-> group, args |-> args,
     before |-> IF kind = "light" THEN heap[light] ELSE NoLight,
     known |-> DOMAIN lights,
     since |-> issued,
     prev |-> [op |-> call.op, light |-> call.light, args |-> call.args,
               status |-> result.status]]

\* The call starts: its frame is built next, and no response is its own yet.
Enter(c, phase) ==
    /\ pc = "idle"
    /\ pc' = "build"
    /\ call' = c
    /\ loc' = [NoLoc EXCEPT !.phase = phase]
    /\ result' = NoResult
    /\ data' = <<>>
    /\ rx' = NoRx
    /\ answer' = NoAnswer
    /\ UNCHANGED <<seq, lights, groups, inbuf, closed, issued, shorts, stale>>

\* The call returns to its caller, or an exception leaves it: the locals die.
Leave(status, at) ==
    /\ pc' = "idle"
    /\ result' = [status |-> status, at |-> at, phase |-> loc.phase,
                  built |-> Cardinality(DOMAIN loc.groups)]
    /\ data' = <<>>
    /\ rx' = NoRx
    /\ loc' = NoLoc

\* ------------------------------------------------------ Luminary mutators

\* Light.set_onoff, set_luminance, set_temperature, set_rgb: what each
\* assigns before it calls the Luminary method of the same name.
Light_before(light, op, args) ==
    CASE op = "set_onoff" -> [light EXCEPT !.on = args[1]]
      [] op = "set_luminance" -> [light EXCEPT !.lum = args[1]]
      [] op = "set_temperature" -> [light EXCEPT !.temp = args[1]]
      [] op = "set_rgb" ->
            [light EXCEPT !.r = args[1], !.g = args[2], !.b = args[3]]

\* set_onoff_after without the snap of a zero luminance to 1.
set_onoff_after_no_snap(light, on) == light

\* Light.set_onoff after the round trip (lines 137-138).
set_onoff_after(light, on) ==
    IF light.lum = 0 /\ on # 0 THEN [light EXCEPT !.lum = 1] ELSE light

\* set_luminance_after without its elif branch: a zero luminance leaves
\* the light on.
set_luminance_after_no_off(light, lum) ==
    IF lum > 0 /\ light.on = 0 THEN [light EXCEPT !.on = 1] ELSE light

\* Light.set_luminance after the round trip (lines 146-149).
set_luminance_after(light, lum) ==
    IF lum > 0 /\ light.on = 0 THEN [light EXCEPT !.on = 1]
    ELSE IF lum = 0 /\ light.on # 0 THEN [light EXCEPT !.on = 0]
    ELSE light

\* What a Light mutator does once Luminary's method has returned.
Light_after(light, op, args) ==
    CASE op = "set_onoff" -> set_onoff_after(light, args[1])
      [] op = "set_luminance" -> set_luminance_after(light, args[1])
      [] OTHER -> light

Mutators == {"set_onoff", "set_luminance", "set_temperature", "set_rgb"}

MutatorArgs(op) ==
    CASE op = "set_onoff" -> {<<on>> : on \in OnArgs}
      [] op = "set_luminance" -> {<<lum, time>> : lum \in LumArgs, time \in TimeArgs}
      [] op = "set_temperature" -> {<<temp, time>> : temp \in TempArgs, time \in TimeArgs}
      [] op = "set_rgb" -> {rgb \o <<time>> : rgb \in RgbArgs, time \in TimeArgs}

\* A mutator of a registered Light is called.
LightMutatorCall ==
    \E a \in DOMAIN lights, op \in Mutators :
        \E args \in MutatorArgs(op) :
            /\ Enter(Call(op, "light", lights[a], NoGroup, args), "none")
            /\ heap' = [heap EXCEPT
                          ![lights[a]] = Light_before(@, op, args)]

\* GroupMutatorCall assigning, as a Light mutator does for its Light, to
\* every registered Light that is a member of the Group.
GroupMutatorCall_on_members ==
    \E n \in DOMAIN groups, op \in Mutators :
        \E args \in MutatorArgs(op) :
            /\ Enter(Call(op, "group", 0, groups[n], args), "none")
            /\ heap' = [o \in DOMAIN heap |->
                          IF heap[o].addr \in Range(groups[n].lights)
                          THEN Light_before(heap[o], op, args)
                          ELSE heap[o]]

\* A mutator of a registered Group is called: Luminary's method, no more.
GroupMutatorCall ==
    \E n \in DOMAIN groups, op \in Mutators :
        \E args \in MutatorArgs(op) :
            /\ Enter(Call(op, "group", 0, groups[n], args), "none")
            /\ UNCHANGED heap

\* ------------------------------------------------------- session operations

SessionCall(op, phase) ==
    /\ Enter(Call(op, "session", 0, NoGroup, <<>>), phase)
    /\ UNCHANGED heap

update_all_light_status_call == SessionCall("update_all_light_status", "none")

update_group_list_call == SessionCall("update_group_list", "list")

group_list_call == SessionCall("group_list", "none")

group_info_call ==
    \E n \in DOMAIN groups :
        /\ Enter(Call("group_info", "group", 0, groups[n], <<>>), "none")
        /\ UNCHANGED heap

update_light_status_call ==
    \E a \in DOMAIN lights :
        /\ Enter(Call("update_light_status", "light", lights[a], NoGroup,
                       <<>>), "none")
        /\ UNCHANGED heap

\* ------------------------------------------------------------ frame building

\* What the running call sends next: a global command, or one aimed at a
\* Group or at a Light.
TargetKind ==
    IF \/ call.op \in {"update_all_light_status", "group_list"}
       \/ call.op = "update_group_list" /\ loc.phase = "list"
    THEN "global"
    ELSE IF call.op = "update_group_list" THEN "group"
    ELSE call.kind

TargetGroup == IF call.op = "update_group_list" THEN loc.group ELSE call.group

\* build_onoff, build_luminance, build_temp, build_colour, build_group_info,
\* build_all_light_status(1), build_light_status, build_group_list: the
\* command code and the packed payload.
Command ==
    CASE call.op = "set_onoff" ->
            [code |-> COMMAND_ONOFF, payload |-> OnoffPayload(call.args[1])]
      [] call.op = "set_luminance" ->
            [code |-> COMMAND_LUMINANCE,
             payload |-> LuminancePayload(call.args[1], call.args[2])]
      [] call.op = "set_temperature" ->
            [code |-> COMMAND_TEMP,
             payload |-> TempPayload(call.args[1], call.args[2])]
      [] call.op = "set_rgb" ->
            [code |-> COMMAND_COLOUR,
             payload |-> ColourPayload(call.args[1], call.args[2],
                                       call.args[3], call.args[4])]
      [] call.op = "update_light_status" ->
            [code |-> COMMAND_LIGHT_STATUS, payload |-> <<>>]
      [] call.op = "update_all_light_status" ->
            [code |-> COMMAND_ALL_LIGHT_STATUS, payload |-> PackB(1)]
      [] TargetKind = "global" -> [code |-> COMMAND_GROUP_LIST, payload |-> <<>>]
      [] OTHER -> [code |-> COMMAND_GROUP_INFO, payload |-> <<>>]

\* The target selector, packed before build_basic_command is entered.
Selector ==
    CASE TargetKind = "global" -> <<>>
      [] TargetKind = "group" -> GroupSelector(TargetGroup.idx)
      [] OTHER -> LightSelector(heap[call.light].addr)

\* Lightify.build_command.
build_command(command, idx, payload, s) ==
    build_basic_command(2, command, GroupSelector(idx), payload, s)

\* Lightify.build_light_command.
build_light_command(command, addr, payload, s) ==
    build_basic_command(0, command, LightSelector(addr), payload, s)

\* The frame of the running call, s being the value next_seq() returned.
BuildFrame(s) ==
    CASE TargetKind = "global" ->
            build_global_command(Command.code, Command.payload, s)
      [] TargetKind = "group" ->
            build_command(Command.code, TargetGroup.idx, Command.payload, s)
      [] OTHER ->
            build_light_command(Command.code, heap[call.light].addr,
                                Command.payload, s)

\* Lightify.next_seq: the new value of __seq, which it also returns.
next_seq(s) == s + 1

\* The frame is built.  The payload and the selector are packed first; then
\* next_seq() runs as an argument of struct.pack, so the counter has moved
\* even when the pack of the header raises struct.error.
Build(limit) ==
    /\ pc = "build"
    /\ IF Command.payload = StructError \/ Selector = StructError
       THEN /\ Leave("error", "pack_args")
            /\ UNCHANGED <<seq, issued>>
       ELSE /\ seq < limit
            /\ seq' = next_seq(seq)
            /\ issued' = issued + 1
            /\ IF BuildFrame(next_seq(seq)) = StructError
               THEN Leave("error", "pack_header")
               ELSE /\ pc' = "send"
                    /\ data' = BuildFrame(next_seq(seq))
                    /\ UNCHANGED <<result, rx, loc>>
    /\ UNCHANGED <<lights, heap, groups, call, inbuf, closed, shorts, stale, answer>>

\* Group.__str__, lines 203-207, without the Light it should at least not
\* invent: an address that is not registered resolves to no Light at all.
Group_str_light_none(registry, light_addr) ==
    [light |-> IF light_addr \in DOMAIN registry THEN registry[light_addr]
               ELSE 0]

\* Group.__str__, lines 203-207: what a member address resolves to, the
\* registered Light or the address itself (printed in hexadecimal).
Group_str_light(registry, light_addr) ==
    IF light_addr \in DOMAIN registry THEN [light |-> registry[light_addr]]
    ELSE [hex |-> light_addr]

\* Lightify.light_byname: the registered Lights whose name() is `name`; the
\* method returns the first of them its dict yields, None when there is none.
light_byname(registry, objects, name) ==
    {o \in Range(registry) : objects[o].Luminary__name = name}

\* ---------------------------------------------------------------- transport

\* socket.recv(n): how many bytes one call may return when some are waiting.
\* Up to n of them; a read that returns fewer than it could returns 1 or
\* Segment bytes, and a session sees at most `budget` such reads.
ReadSizes(n, budget) ==
    LET most == Min(n, Len(inbuf))
    IN  {most} \cup {k \in {1, Segment} : k < most /\ shorts < budget}

\* socket.recv(n): the strings it may return.  With nothing waiting it
\* blocks, or returns "" once the peer has closed the connection.
SockRecv(n, budget) ==
    IF inbuf = <<>> THEN (IF closed THEN {<<>>} ELSE {})
    ELSE {SubSeq(inbuf, 1, k) : k \in ReadSizes(n, budget)}

Shorts(chunk, n) == shorts + (IF Len(chunk) < Min(n, Len(inbuf)) THEN 1 ELSE 0)

\* Lightify.send after the peer closed: sendall raises socket.error.
SendFails ==
    /\ pc = "send"
    /\ closed
    /\ Leave("error", "send")
    /\ UNCHANGED <<seq, lights, heap, groups, call, inbuf, closed, issued, shorts, stale, answer>>

\* Lightify.send after the peer closed, the kernel still taking the bytes:
\* no response will come.
SendUnanswered ==
    /\ pc = "send"
    /\ closed
    /\ pc' = "recv_len"
    /\ stale' = Len(inbuf)
    /\ answer' = NoAnswer
    /\ UNCHANGED <<seq, lights, heap, groups, call, data, rx, loc, inbuf,
                   closed, result, issued, shorts>>

\* History: what the gateway has told once it answers req with resp.
Told(req, resp) ==
    IF req[4] = COMMAND_ALL_LIGHT_STATUS
    THEN [NoAnswer EXCEPT !.frame = resp.frame, !.lamps = resp.told]
    ELSE IF req[4] = COMMAND_GROUP_LIST
    THEN [NoAnswer EXCEPT !.frame = resp.frame, !.list = resp.told]
    ELSE IF req[4] = COMMAND_GROUP_INFO
    THEN [frame |-> resp.frame, lamps |-> <<>>, list |-> answer.list,
          info |-> (req[9] :> resp.told) @@ answer.info]
    ELSE [NoAnswer EXCEPT !.frame = resp.frame]

\* Lightify.send: sendall writes the frame, and the gateway answers it with
\* one of answers.
Sent(answers) ==
    /\ pc = "send"
    /\ ~closed
    /\ \E resp \in answers :
          /\ inbuf' = inbuf \o resp.frame
          /\ answer' = Told(data, resp)
    /\ stale' = Len(inbuf)
    /\ pc' = "recv_len"
    /\ UNCHANGED <<seq, lights, heap, groups, call, data, rx, loc, closed,
                   result, issued, shorts>>

Send == Sent(Responses(data))

SendSteady == Sent(SteadyResponses(data))

SendWide == Sent(WideResponses(data))

\* Lightify.send answered by a gateway whose responses are well-formed.
SendSound == Sent({a \in Responses(data) : a.sound})

\* Lightify.recv, lines 415-424: one read for the 2-byte length, unpacked
\* whatever the read returned.
RecvLength(budget) ==
    /\ pc = "recv_len"
    /\ \E chunk \in SockRecv(lengthsize, budget) :
        LET length == UnpackH(Slice(chunk, 0, lengthsize))
            expected == length + 2 - Len(chunk)
        IN  /\ inbuf' = SubSeq(inbuf, Len(chunk) + 1, Len(inbuf))
            /\ shorts' = Shorts(chunk, lengthsize)
            /\ IF length = NoInt THEN Leave("error", "recv")
               ELSE /\ rx' = [data |-> chunk, expected |-> expected,
                              string |-> <<>>]
                    /\ pc' = IF expected > 0 THEN "recv_loop" ELSE "decode"
                    /\ data' = IF expected > 0 THEN data ELSE chunk
                    /\ UNCHANGED <<result, loc>>
    /\ UNCHANGED <<seq, lights, heap, groups, call, closed, issued, stale, answer>>

\* Lightify.recv, lines 425-439: one turn of the while loop, and the return
\* once expected has reached 0.
RecvLoop(budget) ==
    /\ pc = "recv_loop"
    /\ \E chunk \in SockRecv(rx.expected, budget) :
        LET expected == rx.expected - Len(chunk)
        IN  /\ inbuf' = SubSeq(inbuf, Len(chunk) + 1, Len(inbuf))
            /\ shorts' = Shorts(chunk, rx.expected)
            /\ rx' = [data |-> chunk, expected |-> expected,
                      string |-> rx.string \o chunk]
            /\ pc' = IF expected > 0 THEN "recv_loop" ELSE "decode"
            /\ data' = IF expected > 0 THEN data ELSE chunk
    /\ UNCHANGED <<seq, lights, heap, groups, call, loc, closed, result,
                   issued, stale, answer>>

\* The gateway closes the connection while the caller waits for a response;
\* bytes it had not sent yet are never sent.
PeerClose ==
    /\ pc \in {"recv_len", "recv_loop"}
    /\ ~closed
    /\ closed' = TRUE
    /\ \E k \in {Len(inbuf)} \cup {j \in {0, 1, Segment} : j < Len(inbuf)} :
          inbuf' = SubSeq(inbuf, 1, k)
    /\ UNCHANGED <<seq, lights, heap, groups, pc, call, data, rx, loc, result,
                   issued, shorts, stale, answer>>

\* ------------------------------------------------ after the response: returns

\* Luminary.set_*: recv's value is dropped; a Light then adjusts itself.
MutatorReturn ==
    /\ pc = "decode"
    /\ call.op \in Mutators
    /\ heap' = IF call.kind = "light"
               THEN [heap EXCEPT
                       ![call.light] = Light_after(@, call.op, call.args)]
               ELSE heap
    /\ Leave("ok", "none")
    /\ UNCHANGED <<seq, lights, groups, call, inbuf, closed, issued, shorts, stale, answer>>

\* Lightify.update_light_status: returns right after recv (line 445).
update_light_status_return ==
    /\ pc = "decode"
    /\ call.op = "update_light_status"
    /\ Leave("ok", "none")
    /\ UNCHANGED <<seq, lights, heap, groups, call, inbuf, closed, issued, shorts, stale, answer>>

\* Lightify.update_all_light_status from line 463 on.  A Light no registry
\* holds any more is garbage.
update_all_light_status_decode ==
    /\ pc = "decode"
    /\ call.op = "update_all_light_status"
    /\ LET num == UnpackH(Slice(data, 7, 9))
           r == StatusLoop(data, 0, num, lights, heap, EmptyMap)
       IN  IF num = NoInt
           THEN Leave("error", "decode") /\ UNCHANGED <<lights, heap>>
           ELSE IF r.ok
           THEN /\ lights' = r.lights
                /\ heap' = Restrict(r.heap, Range(r.lights))
                /\ Leave("ok", "none")
           ELSE /\ lights' = lights
                /\ heap' = Restrict(r.heap, Range(lights))
                /\ Leave("error", "decode")
    /\ UNCHANGED <<seq, groups, call, inbuf, closed, issued, shorts, stale, answer>>

\* Lightify.group_list called by itself: the dict is the caller's.
group_list_decode ==
    /\ pc = "decode"
    /\ call.op = "group_list"
    /\ IF DecodeGroupList(data).ok THEN Leave("ok", "none")
       ELSE Leave("error", "decode")
    /\ UNCHANGED <<seq, lights, heap, groups, call, inbuf, closed, issued, shorts, stale, answer>>

\* Lightify.group_info called by itself: the list is the caller's.
group_info_decode ==
    /\ pc = "decode"
    /\ call.op = "group_info"
    /\ IF DecodeGroupInfo(data).ok THEN Leave("ok", "none")
       ELSE Leave("error", "decode")
    /\ UNCHANGED <<seq, lights, heap, groups, call, inbuf, closed, issued, shorts, stale, answer>>

\* GroupLoop storing into self.__groups as it goes, not once at the end.
GroupLoop_in_place(todo, built) ==
    /\ groups' = built
    /\ IF DOMAIN todo = {}
       THEN Leave("ok", "none")
       ELSE /\ \E idx \in DOMAIN todo :
                  loc' = [phase |-> "info",
                          lst |-> Restrict(todo, DOMAIN todo \ {idx}),
                          groups |-> built,
                          group |-> NewGroup(idx, todo[idx], <<>>)]
            /\ pc' = "build"
            /\ UNCHANGED <<result, data, rx>>

\* update_group_list, line 388 or the next turn of its for loop: with no
\* entry of lst left the registry is replaced, and else a Group is made for
\* one of them (a dict iterates in an order of its own) and group_info is
\* called for it.
GroupLoop(todo, built) ==
    IF DOMAIN todo = {}
    THEN /\ groups' = built
         /\ Leave("ok", "none")
    ELSE /\ groups' = groups
         /\ \E idx \in DOMAIN todo :
               loc' = [phase |-> "info",
                       lst |-> Restrict(todo, DOMAIN todo \ {idx}),
                       groups |-> built,
                       group |-> NewGroup(idx, todo[idx], <<>>)]
         /\ pc' = "build"
         /\ UNCHANGED <<result, data, rx>>

\* update_group_list, lines 379-380: group_list has its response.
update_group_list_list ==
    /\ pc = "decode"
    /\ call.op = "update_group_list"
    /\ loc.phase = "list"
    /\ LET r == DecodeGroupList(data)
       IN  IF r.ok THEN GroupLoop(r.groups, EmptyMap)
           ELSE Leave("error", "decode") /\ UNCHANGED groups
    /\ UNCHANGED <<seq, lights, heap, call, inbuf, closed, issued, shorts, stale, answer>>

\* update_group_list, lines 384-386: group_info has its response.
update_group_list_info ==
    /\ pc = "decode"
    /\ call.op = "update_group_list"
    /\ loc.phase = "info"
    /\ LET r == DecodeGroupInfo(data)
           group == [loc.group EXCEPT !.lights = r.lights]
       IN  IF r.ok
           THEN GroupLoop(loc.lst, (group.name :> group) @@ loc.groups)
           ELSE Leave("error", "decode") /\ UNCHANGED groups
    /\ UNCHANGED <<seq, lights, heap, call, inbuf, closed, issued, shorts, stale, answer>>

\* ------------------------------------------------------------ specification

Calls ==
    \/ LightMutatorCall
    \/ GroupMutatorCall
    \/ update_all_light_status_call
    \/ update_group_list_call
    \/ group_list_call
    \/ group_info_call
    \/ update_light_status_call

Returns ==
    \/ MutatorReturn
    \/ update_light_status_return
    \/ update_all_light_status_decode
    \/ group_list_decode
    \/ group_info_decode
    \/ update_group_list_list
    \/ update_group_list_info

\* The socket's side of a round trip; the gateway may close the connection.
Wire ==
    \/ Send
    \/ SendFails
    \/ SendUnanswered
    \/ RecvLength(MaxShort)
    \/ RecvLoop(MaxShort)
    \/ PeerClose

\* Every public operation, in sessions of a few commands.
Next ==
    \/ Calls
    \/ Build(MaxSeq)
    \/ Wire
    \/ Returns

Spec == Init /\ [][Next]_vars

\* Sessions that refresh, query and command groups only.
NextGroups ==
    \/ GroupMutatorCall
    \/ update_group_list_call
    \/ group_list_call
    \/ group_info_call
    \/ Build(GroupSeq)
    \/ Wire
    \/ MutatorReturn
    \/ group_list_decode
    \/ group_info_decode
    \/ update_group_list_list
    \/ update_group_list_info

SpecGroups == Init /\ [][NextGroups]_vars

\* Long sessions over a connection that stays up and never splits a read:
\* polls of all lights and of one light, until the counter passes a byte.
NextSeq ==
    \/ update_all_light_status_call
    \/ update_light_status_call
    \/ Build(SeqLimit)
    \/ SendSteady
    \/ RecvLength(0)
    \/ RecvLoop(0)
    \/ update_light_status_return
    \/ update_all_light_status_decode

SpecSeq == Init /\ [][NextSeq]_vars

\* Sessions over a connection that stays up and never splits a read, with a
\* gateway whose responses are well-formed: polls, group refreshes and
\* Group mutators.
NextHome ==
    \/ update_all_light_status_call
    \/ update_group_list_call
    \/ GroupMutatorCall
    \/ Build(HomeSeq)
    \/ SendSound
    \/ RecvLength(0)
    \/ RecvLoop(0)
    \/ MutatorReturn
    \/ update_all_light_status_decode
    \/ update_group_list_list
    \/ update_group_list_info

SpecHome == Init /\ [][NextHome]_vars

\* Sessions that refresh and command the groups of a gateway that lists an
\* index above 255, the connection and the responses being sound.
NextWide ==
    \/ update_group_list_call
    \/ GroupMutatorCall
    \/ Build(WideSeq)
    \/ SendWide
    \/ RecvLength(0)
    \/ RecvLoop(0)
    \/ MutatorReturn
    \/ update_group_list_list
    \/ update_group_list_info

SpecWide == Init /\ [][NextWide]_vars

\* ------------------------------------------------------------------ claims

\* C1: the k-th command frame issued on a session carries the sequence byte
\* (k + 1) mod 256: the byte starts at 2, grows by 1 per command and wraps at
\* 256; no build fails because of the counter.
C1_SequenceByteWraps ==
    /\ pc = "send" => data[8] = (issued + 1) % 256
    /\ result.at # "pack_header"

\* C2: a request frame is sent only when the responses to all earlier
\* requests have been received completely, also after a failed operation.
C2_OneRequestOutstanding == stale = 0

\* C3: what recv() returns is all the chunks read after the length prefix,
\* concatenated in arrival order, however the socket split them.
C3_RecvReturnsAllChunks ==
    (pc = "decode" /\ rx.string # <<>>) => data = rx.string

\* C4: once a read in recv()'s loop has returned zero bytes on the closed
\* connection, recv() is over: it is never about to read again.
C4_RecvEndsAtEof ==
    ~(pc = "recv_loop" /\ closed /\ inbuf = <<>> /\ rx.data = <<>>)

\* A mutator among ops, called on a Light, has returned normally.
LightCallDone(ops) ==
    /\ pc = "idle"
    /\ result.status = "ok"
    /\ call.kind = "light"
    /\ call.op \in ops

\* C5 as stated: after every completed set_onoff or set_luminance of a
\* Light, its luminance is 0 if and only if it is off.
C5_LuminanceZeroIffOff ==
    LightCallDone({"set_onoff", "set_luminance"}) =>
        (heap[call.light].lum = 0 <=> heap[call.light].on = 0)

\* C5 as amended: after every completed set_onoff or set_luminance of a
\* Light, a luminance of 0 implies that it is off (a light that is on has a
\* luminance above 0); a light switched off keeps its luminance.
C5_LuminanceZeroImpliesOff ==
    LightCallDone({"set_onoff", "set_luminance"}) =>
        (heap[call.light].lum = 0 => heap[call.light].on = 0)

\* C5's case: set_luminance(0) has completed on a light that was on.
C5_Witness ==
    /\ LightCallDone({"set_luminance"})
    /\ call.args[1] = 0
    /\ call.before.on # 0
    /\ heap[call.light].lum = 0
    /\ heap[call.light].on = 0

\* The call before the running one was a completed set_luminance(0) on the
\* same Light.
AfterDimToZero ==
    /\ call.prev.op = "set_luminance"
    /\ call.prev.light = call.light
    /\ call.prev.status = "ok"
    /\ call.prev.args[1] = 0

\* C6: with the round trips succeeding, set_luminance(0) followed by
\* set_onoff(1) leaves luminance 1 and the light on; set_luminance(l), l > 0,
\* on a light that is off leaves it on with luminance l; set_luminance(0) on
\* a light that is on leaves it off.
C6_Coupling ==
    LightCallDone({"set_onoff", "set_luminance"}) =>
        LET light == heap[call.light]
        IN  /\ (call.op = "set_onoff" /\ call.args[1] = 1 /\ AfterDimToZero)
                  => (light.lum = 1 /\ light.on # 0)
            /\ (call.op = "set_luminance" /\ call.args[1] > 0
                /\ call.before.on = 0)
                  => (light.on # 0 /\ light.lum = call.args[1])
            /\ (call.op = "set_luminance" /\ call.args[1] = 0
                /\ call.before.on # 0)
                  => light.on = 0

\* C6's case: set_onoff(1) has completed right after set_luminance(0).
C6_Witness ==
    /\ LightCallDone({"set_onoff"})
    /\ call.args[1] = 1
    /\ AfterDimToZero
    /\ heap[call.light].lum = 1

\* This step is update_all_light_status returning normally.
PollSucceeds ==
    /\ pc = "decode"
    /\ call.op = "update_all_light_status"
    /\ result'.status = "ok"

\* The addresses the gateway reported in its answer to the poll.
Polled == {answer.lamps[i].mac : i \in 1..Len(answer.lamps)}

\* C7: after a successful update_all_light_status the registry's keys are
\* exactly the addresses of the poll's response; an address registered
\* before keeps its Light object, a new address gets a new one.
C7_RegistryIsThePoll ==
    [][PollSucceeds =>
          /\ DOMAIN lights' = Polled
          /\ \A a \in DOMAIN lights' \cap DOMAIN lights : lights'[a] = lights[a]
          /\ \A a \in DOMAIN lights' \ DOMAIN lights :
                lights'[a] \notin Range(lights)]_vars

\* The last record the poll's response holds for address a.
LastRecord(a) ==
    answer.lamps[CHOOSE i \in 1..Len(answer.lamps) :
                    /\ answer.lamps[i].mac = a
                    /\ \A j \in (i + 1)..Len(answer.lamps) :
                          answer.lamps[j].mac # a]

\* The accessors of a Light give the values of a status record.
Reports(light, rec) ==
    /\ light.Luminary__name = rec.name
    /\ light.id = rec.id
    /\ light.type = rec.type
    /\ light.fwVersion = rec.fwVersion
    /\ light.online = rec.online
    /\ light.groupId = rec.groupId
    /\ light.on = rec.status
    /\ light.lum = rec.brightness
    /\ light.temp = rec.temp
    /\ <<light.r, light.g, light.b>> = <<rec.red, rec.green, rec.blue>>
    /\ light.alpha = rec.alpha

\* C8: after a successful update_all_light_status every registered Light,
\* new or kept, reports through its accessors the values of the poll's
\* record for its address, and light_byname finds it under the polled name.
C8_AccessorsReportThePoll ==
    [][PollSucceeds =>
          \A a \in DOMAIN lights' \cap Polled :
              /\ Reports(heap'[lights'[a]], LastRecord(a))
              /\ lights'[a] \in light_byname(lights', heap', LastRecord(a).name)]_vars

\* C9: when update_all_light_status fails, the registry has the keys it had
\* and every attribute of every registered Light is as it was.
C9_FailedPollLeavesLights ==
    [][(call.op = "update_all_light_status" /\ pc # "idle" /\ pc' = "idle"
        /\ result'.status = "error")
          => (lights' = lights /\ heap' = heap)]_vars

\* C10: no step of update_group_list changes the Group registry, but the
\* last step of a refresh that succeeds: a refresh that fails at the group
\* list or at any group-info request leaves the registry as it was.
C10_FailedRefreshLeavesGroups ==
    [][(call.op = "update_group_list" /\ pc # "idle"
        /\ ~(pc' = "idle" /\ result'.status = "ok"))
          => groups' = groups]_vars

\* C10's case: a refresh failed in a group-info request after it had built
\* a Group, the registry holding the groups of an earlier refresh.
C10_Witness ==
    /\ pc = "idle"
    /\ call.op = "update_group_list"
    /\ result.status = "error"
    /\ result.phase = "info"
    /\ result.built > 0
    /\ groups # EmptyMap

\* A mutator of a Light is running and has not received its acknowledgement.
AwaitingAck ==
    /\ call.kind = "light"
    /\ call.op \in Mutators
    /\ pc \in {"build", "send", "recv_len", "recv_loop"}

\* C11: while a Light mutator has not received its acknowledgement, the
\* Light's attributes are what they were when the call began.
C11_LocalStateAfterAck ==
    AwaitingAck => heap[call.light] = call.before

\* The layout an outbound frame must have: the header with the length of
\* what follows the length field, the selector of a targeted command, the
\* payload.
Layout(target, flag, code, s, selector, payload) ==
    LET length == (IF target = "global" THEN 6 ELSE 14) + Len(payload)
    IN  <<length % 256, length \div 256, flag, code, 0, 0, 7, s>>
        \o selector \o payload

\* The frame of the spec's example: set_onoff(1) on the light with address
\* 0x0123456789ABCDEF, sequence 5.
ExampleFrame ==
    build_light_command(COMMAND_ONOFF, <<1, 35, 69, 103, 137, 171, 205, 239>>,
                        OnoffPayload(1), 5)

\* C12: every frame about to be sent has the layout of the wire format:
\* flag 0 and the address, least significant byte first, for a Light; flag 2
\* and an 8-byte selector for a Group; flag 2 and no selector for a global
\* command; set_onoff carries its argument as a 1-byte payload; and the
\* frame of the spec's example is the one the spec gives.
C12_FrameLayout ==
    /\ pc = "send" =>
          /\ TargetKind = "light" =>
                data = Layout("light", 0, Command.code, seq,
                              Reverse(heap[call.light].addr), Command.payload)
          /\ TargetKind = "group" =>
                /\ Len(data) = 16 + Len(Command.payload)
                /\ data = Layout("group", 2, Command.code, seq,
                                 SubSeq(data, 9, 16), Command.payload)
          /\ TargetKind = "global" =>
                data = Layout("global", 2, Command.code, seq, <<>>,
                              Command.payload)
          /\ call.op = "set_onoff" =>
                /\ data[4] = 50
                /\ SubSeq(data, 17, Len(data)) = <<call.args[1]>>
    /\ ExampleFrame = <<15, 0, 0, 50, 0, 0, 7, 5,
                        239, 205, 171, 137, 103, 69, 35, 1, 1>>

\* C12's case: the frame of set_onoff(1) on a Light is about to be sent.
C12_Witness ==
    /\ pc = "send"
    /\ call.kind = "light"
    /\ call.op = "set_onoff"
    /\ call.args = <<1>>
    /\ Len(data) = 17

\* The i-th (from 0) 50-byte record of a response, and its address.
RecordAt(resp, i) == SubSeq(resp, 10 + 50 * i, 59 + 50 * i)
AddressAt(resp, i) == Reverse(SubSeq(RecordAt(resp, i), 3, 10))

\* The accessors of a Light give the fields of a record at the offsets of
\* the wire format (bytes counted from 0).
LaidOut(light, rec) ==
    /\ light.id = rec[1] + 256 * rec[2]
    /\ light.addr = Reverse(SubSeq(rec, 3, 10))
    /\ light.type = rec[11]
    /\ light.fwVersion = SubSeq(rec, 12, 15)
    /\ light.online = rec[16]
    /\ light.groupId = rec[17] + 256 * rec[18]
    /\ light.on = rec[19]
    /\ light.lum = rec[20]
    /\ light.temp = rec[21] + 256 * rec[22]
    /\ <<light.r, light.g, light.b, light.alpha>> = SubSeq(rec, 23, 26)
    /\ light.Luminary__name = StripNul(SubSeq(rec, 27, 42))

\* C13: when update_all_light_status decodes a whole response of count n
\* and n records and returns normally, then for each record (the last one
\* of its address) the Light registered under the record's address has the
\* attributes laid out in the record.
C13_StatusRecordLayout ==
    [][(PollSucceeds /\ data = SliceFrom(answer.frame, 2))
          => LET n == data[8] + 256 * data[9]
             IN  /\ Len(data) = 9 + 50 * n
                 /\ \A i \in 0..(n - 1) :
                       (\A j \in (i + 1)..(n - 1) :
                            AddressAt(data, j) # AddressAt(data, i))
                       => /\ AddressAt(data, i) \in DOMAIN lights'
                          /\ LaidOut(heap'[lights'[AddressAt(data, i)]],
                                     RecordAt(data, i))]_vars

\* This step is update_group_list returning normally.
RefreshSucceeds ==
    /\ pc = "decode"
    /\ call.op = "update_group_list"
    /\ pc' = "idle"
    /\ result'.status = "ok"

\* The addresses a group-info response told, in its order.
ToldMembers(idx) ==
    [k \in 1..Len(answer.info[idx]) |-> Reverse(answer.info[idx][k])]

\* C14: after a successful update_group_list the registry's keys are the
\* names of the group-list response, each Group has the index listed for its
\* name and, as members, the addresses of the group-info response for that
\* index, in order.
C14_RegistryIsTheRefresh ==
    [][RefreshSucceeds =>
          LET listed == answer.list
          IN  /\ DOMAIN groups' = {listed[i].name : i \in 1..Len(listed)}
              /\ \A n \in DOMAIN groups' :
                    /\ \E i \in 1..Len(listed) :
                          /\ listed[i].name = n
                          /\ listed[i].idx = groups'[n].idx
                    /\ groups'[n].idx \in DOMAIN answer.info
                    /\ groups'[n].lights = ToldMembers(groups'[n].idx)]_vars

\* C15: building a command aimed at a Group never fails in packing its
\* selector, and the selector of the frame about to be sent is the group
\* index as an 8-byte little-endian integer.
C15_GroupSelector ==
    /\ result.at # "pack_args"
    /\ (pc = "send" /\ TargetKind = "group") =>
          SubSeq(data, 9, 16) = <<TargetGroup.idx % 256,
                                  TargetGroup.idx \div 256, 0, 0, 0, 0, 0, 0>>

\* The addresses that are members of some registered Group.
Members == UNION {Range(groups[n].lights) : n \in DOMAIN groups}

\* C16: no step of update_all_light_status changes the Group registry or a
\* Group's member list; and whenever a poll has returned, a member address
\* that is registered resolves to the Light now registered under it, and one
\* that is not resolves to the bare address.
C16_PollLeavesGroups ==
    [][call'.op = "update_all_light_status" =>
          /\ groups' = groups
          /\ pc' = "idle" =>
                \A m \in Members :
                    IF m \in DOMAIN lights'
                    THEN /\ Group_str_light(lights', m) = [light |-> lights'[m]]
                         /\ lights'[m] \in DOMAIN heap'
                         /\ heap'[lights'[m]].addr = m
                    ELSE Group_str_light(lights', m) = [hex |-> m]]_vars

\* C16's case: a poll has returned that dropped from the Light registry an
\* address which a registered Group lists as a member.
C16_Witness ==
    /\ pc = "idle"
    /\ call.op = "update_all_light_status"
    /\ result.status = "ok"
    /\ \E m \in Members : m \in call.known /\ m \notin DOMAIN lights

\* The response to the request the running operation sent, as recv should
\* take it off the socket: what follows its length prefix.
OwnResponse == SliceFrom(answer.frame, 2)

\* C17: once recv has read a length prefix, the length it expects and the
\* bytes it has taken off the socket since are those of the response to the
\* request this operation sent, from its first byte on.
C17_ReadsOwnResponse ==
    pc \in {"recv_loop", "decode"} =>
        /\ Len(rx.string) <= Len(OwnResponse)
        /\ rx.string = SubSeq(OwnResponse, 1, Len(rx.string))
        /\ rx.expected = Len(OwnResponse) - Len(rx.string)

\* The coupling of a Light's local state: a luminance of 0 implies off, or
\* what is the same, on implies a luminance above 0.
Coupled(light) ==
    /\ light.lum = 0 => light.on = 0
    /\ light.on # 0 => light.lum > 0

\* C18: when set_onoff or set_luminance of a Light has failed in its round
\* trip (send or receive raised), the Light's local state has the coupling
\* if it had it when the call began.
C18_FailedRoundTripKeepsCoupling ==
    (/\ pc = "idle"
     /\ call.kind = "light"
     /\ call.op \in {"set_onoff", "set_luminance"}
     /\ result.status = "error"
     /\ result.at \in {"send", "recv"}
     /\ Coupled(call.before))
        => Coupled(heap[call.light])

\* This step begins or belongs to a mutator called on a Group.
GroupMutatorStep ==
    /\ call'.kind = "group"
    /\ call'.op \in Mutators

\* C19: no step of a Group mutator changes a registry or an attribute of a
\* Light, and when it returns normally exactly one frame has been issued
\* since it began, the sequence counter having moved by one.
C19_GroupMutatorFrame ==
    [][GroupMutatorStep =>
          /\ lights' = lights
          /\ heap' = heap
          /\ groups' = groups
          /\ (pc' = "idle" /\ result'.status = "ok") =>
                /\ issued' = call'.since + 1
                /\ seq' = issued' + 1]_vars

\* C19's case: a mutator has returned normally on a Group one of whose
\* members is a registered Light.
C19_Witness ==
    /\ pc = "idle"
    /\ call.kind = "group"
    /\ call.op \in Mutators
    /\ result.status = "ok"
    /\ issued = call.since + 1
    /\ \E m \in Range(call.group.lights) : m \in DOMAIN lights

====
